---- MODULE Spec2Model ----
(***************************************************************************)
(* Personal finance tracker: the relational store of the migration         *)
(* (three tables, foreign keys, a uniqueness constraint, row level         *)
(* security) and the React client that writes to it and aggregates what    *)
(* it has loaded.                                                          *)
(*                                                                         *)
(* Amounts are numeric(10,2) in the store and JavaScript numbers in the    *)
(* client; the model counts them in integer cents.  Calendar dates are     *)
(* day numbers counted from 2024-01-01 (day 0), instants are hours counted *)
(* from 2024-01-01T00:00Z.  Display-only columns (color, icon,             *)
(* description, created_at) are left out of the rows.                      *)
(***************************************************************************)
EXTENDS Integers, Sequences, FiniteSets, TLC

VARIABLES
    categoriesTable,    \* rows of table categories
    transactionsTable,  \* rows of table transactions
    budgetsTable,       \* rows of table budgets
    nextId,             \* the number of row ids handed out so far
    lastOp,             \* the last statement the store executed, and its outcome
    view,               \* Dashboard: the view shown
    loading,            \* Dashboard: loadData is under way
    showTransactionForm, \* Dashboard: the transaction form is open
    transactions,       \* Dashboard: the transactions loaded last
    categories,         \* Dashboard: the categories loaded last
    budgets,            \* Dashboard: the budgets loaded last
    categoryManager,    \* CategoryManager: showForm, name, type, loading
    transactionForm,    \* TransactionForm: type, amount, categoryId, date, loading, error
    budgetManager,      \* BudgetManager: showForm, categoryId, amount, month, loading
    requests,           \* the requests of the dashboard whose answers it still awaits
    prompt,             \* the confirm() dialog of a handleDelete under way, and its answer
    now,                \* the instant of the render, in hours since 2024-01-01T00:00Z
    tz,                 \* the browser's time zone: local time is UTC + tz hours
    totals,             \* Dashboard: totalIncome, totalExpenses, balance as rendered
    stats,              \* Stats: what the last render computed
    budgetCards         \* BudgetManager: the cards of the last render

storeVars == <<categoriesTable, transactionsTable, budgetsTable, nextId, lastOp>>

dashboardVars == <<view, loading, showTransactionForm, transactions, categories, budgets>>

formVars == <<categoryManager, transactionForm, budgetManager>>

clientVars == <<dashboardVars, formVars, requests, prompt>>

renderVars == <<now, tz, totals, stats, budgetCards>>

vars == <<storeVars, clientVars, renderVars>>

----------------------------------------------------------------------------
(* Bounds of the model *)

\* rows ever stored, over the three tables (each takes a fresh id)
MaxRows == 3

\* requests of the dashboard under way at a time, once its first load is over
MaxRequests == 1

\* rows the other sessions of the account store beside the dashboard
MaxSeeds == 2

----------------------------------------------------------------------------
(* Identities and column domains *)

Users == {"u1", "u2"}

\* a caller with no session: role anon, auth.uid() is NULL
Anon == "anon"

Callers == Users \cup {Anon}

NULL == "null"

\* no id: a NULL uuid column, the empty value of a form's select
NoId == 0

Tables == {"categories", "transactions", "budgets"}

Types == {"expense", "income"}

Names == {"Food"}

ApiTypes == {"expense"}

\* cents; 0 is what CHECK (amount > 0) refuses
ApiAmounts == {0, 5000}

ApiDates == {4}

\* first-of-month day numbers of 2024-01 and 2024-02
ApiMonths == {0, 31}

TableRows(table) ==
    CASE table = "categories" -> categoriesTable
      [] table = "transactions" -> transactionsTable
      [] table = "budgets" -> budgetsTable

Ids(rows) == {r.id : r \in rows}

----------------------------------------------------------------------------
(* Row level security *)

\* auth.uid(): the caller's identity, NULL without a session
auth_uid(caller) == IF caller \in Users THEN caller ELSE NULL

\* TO authenticated: the policy applies to callers with a session only, and a
\* table with row security enabled and no applicable policy denies everything
Authenticated(caller) == caller \in Users

\* a comparison with NULL is not true
SqlEq(a, b) == a # NULL /\ b # NULL /\ a = b

\* a select policy that forgets the owner: USING (true)
SelectUsingTrue(table, caller, row) == Authenticated(caller)

\* FOR SELECT ... USING (auth.uid() = user_id)
SelectUsing(table, caller, row) ==
    Authenticated(caller) /\ SqlEq(auth_uid(caller), row.user_id)

\* FOR INSERT ... WITH CHECK (auth.uid() = user_id)
InsertWithCheck(table, caller, row) ==
    Authenticated(caller) /\ SqlEq(auth_uid(caller), row.user_id)

\* FOR UPDATE ... USING (auth.uid() = user_id)
UpdateUsing(table, caller, row) ==
    Authenticated(caller) /\ SqlEq(auth_uid(caller), row.user_id)

\* FOR UPDATE ... WITH CHECK (auth.uid() = user_id)
UpdateWithCheck(table, caller, row) ==
    Authenticated(caller) /\ SqlEq(auth_uid(caller), row.user_id)

\* FOR DELETE ... USING (auth.uid() = user_id)
DeleteUsing(table, caller, row) ==
    Authenticated(caller) /\ SqlEq(auth_uid(caller), row.user_id)

----------------------------------------------------------------------------
(* Table constraints *)

\* user_id uuid ... NOT NULL, category_id uuid ... NOT NULL
NotNullViolated(table, row) ==
    \/ row.user_id = NULL
    \/ table # "categories" /\ row.category_id = NoId

\* CHECK (type IN ('expense', 'income')), CHECK (amount > 0)
CheckViolated(table, row) ==
    \/ table \in {"categories", "transactions"} /\ row.type \notin Types
    \/ table \in {"transactions", "budgets"} /\ ~(row.amount > 0)

\* a budgets table without its unique constraint
NoUniqueConstraint(table, row, others) == FALSE

\* UNIQUE(user_id, category_id, month) on budgets; others are the rows
\* already stored, the row itself left out
UniqueViolated(table, row, others) ==
    /\ table = "budgets"
    /\ \E b \in others :
          /\ b.user_id = row.user_id
          /\ b.category_id = row.category_id
          /\ b.month = row.month

\* category_id uuid REFERENCES categories(id): the referenced row must exist;
\* the referential check reads categories without row security
ForeignKeyViolated(table, row) ==
    /\ table # "categories"
    /\ row.category_id \notin Ids(categoriesTable)

\* The outcome of writing row into table with the rows others beside it, in
\* the order the store checks: the policy's WITH CHECK, the column
\* constraints, the unique index, the foreign key.
WriteError(table, row, others) ==
    IF NotNullViolated(table, row) THEN "not_null"
    ELSE IF CheckViolated(table, row) THEN "check"
    ELSE IF UniqueViolated(table, row, others) THEN "unique"
    ELSE IF ForeignKeyViolated(table, row) THEN "fk"
    ELSE "ok"

InsertError(table, caller, row) ==
    IF ~InsertWithCheck(table, caller, row) THEN "rls"
    ELSE WriteError(table, row, TableRows(table))

\* a reference that does not cascade
NoCascade(rows, deletedCategoryIds) == {}

\* ON DELETE CASCADE: the rows of a referencing table that go with the
\* deleted categories (the cascade runs without row security)
CascadeDeleted(rows, deletedCategoryIds) ==
    {r \in rows : r.category_id \in deletedCategoryIds}

----------------------------------------------------------------------------
(* Statements *)

\* id uuid PRIMARY KEY DEFAULT gen_random_uuid(): a fresh id
NewId == nextId + 1

\* rows: what a select returned; cascaded: how many rows a delete took with it
\* through ON DELETE CASCADE
OpRecord(caller, table, cmd, err, rows, cascaded) ==
    [caller |-> caller, table |-> table, cmd |-> cmd,
     err |-> err, rows |-> rows, cascaded |-> cascaded]

\* INSERT INTO table VALUES (payload), issued by caller.  payload has every
\* column but id.
StoreInsert(caller, table, payload) ==
    LET row == [id |-> NewId] @@ payload
        err == InsertError(table, caller, row)
    IN  /\ err = "ok" => nextId < MaxRows
        /\ IF err = "ok"
           THEN /\ categoriesTable' =
                      IF table = "categories" THEN categoriesTable \cup {row}
                      ELSE categoriesTable
                /\ transactionsTable' =
                      IF table = "transactions" THEN transactionsTable \cup {row}
                      ELSE transactionsTable
                /\ budgetsTable' =
                      IF table = "budgets" THEN budgetsTable \cup {row}
                      ELSE budgetsTable
                /\ nextId' = nextId + 1
           ELSE UNCHANGED <<categoriesTable, transactionsTable, budgetsTable, nextId>>
        /\ lastOp' = OpRecord(caller, table, "insert", err, {}, 0)

\* the rows of table a SELECT issued by caller returns
Visible(table, caller) ==
    {r \in TableRows(table) : SelectUsing(table, caller, r)}

\* SELECT * FROM table, issued by caller
StoreSelect(caller, table) ==
    /\ lastOp' = OpRecord(caller, table, "select", "ok", Visible(table, caller), 0)
    /\ UNCHANGED <<categoriesTable, transactionsTable, budgetsTable, nextId>>

\* DELETE FROM table WHERE id = target, issued by caller: the rows the
\* policies let the caller see and delete, and what cascades from them
StoreDelete(caller, table, target) ==
    LET hit == {r \in Visible(table, caller) :
                   r.id = target /\ DeleteUsing(table, caller, r)}
        goneTx == IF table = "categories"
                  THEN CascadeDeleted(transactionsTable, Ids(hit)) ELSE {}
        goneBu == IF table = "categories"
                  THEN CascadeDeleted(budgetsTable, Ids(hit)) ELSE {}
    IN  /\ categoriesTable' =
              IF table = "categories" THEN categoriesTable \ hit ELSE categoriesTable
        /\ transactionsTable' =
              IF table = "transactions" THEN transactionsTable \ hit
              ELSE transactionsTable \ goneTx
        /\ budgetsTable' =
              IF table = "budgets" THEN budgetsTable \ hit
              ELSE budgetsTable \ goneBu
        /\ lastOp' = OpRecord(caller, table, "delete", "ok", {},
                              Cardinality(goneTx) + Cardinality(goneBu))
        /\ UNCHANGED nextId

\* row with the columns of set overwritten
Assign(row, set) ==
    [c \in DOMAIN row |-> IF c \in DOMAIN set THEN set[c] ELSE row[c]]

\* UPDATE table SET (set) WHERE id = target, issued by caller: the rows the
\* policies let the caller see and update; the statement fails as a whole
\* when a new row breaks the policy's WITH CHECK or a constraint
StoreUpdate(caller, table, target, set) ==
    LET hit == {r \in Visible(table, caller) :
                   r.id = target /\ UpdateUsing(table, caller, r)}
        errs == {IF ~UpdateWithCheck(table, caller, Assign(r, set)) THEN "rls"
                 ELSE WriteError(table, Assign(r, set), TableRows(table) \ {r}) :
                 r \in hit}
        err == IF errs \subseteq {"ok"} THEN "ok" ELSE CHOOSE e \in errs : e # "ok"
        after == (TableRows(table) \ hit) \cup {Assign(r, set) : r \in hit}
    IN  /\ IF err = "ok"
           THEN /\ categoriesTable' =
                      IF table = "categories" THEN after ELSE categoriesTable
                /\ transactionsTable' =
                      IF table = "transactions" THEN after ELSE transactionsTable
                /\ budgetsTable' =
                      IF table = "budgets" THEN after ELSE budgetsTable
           ELSE UNCHANGED <<categoriesTable, transactionsTable, budgetsTable>>
        /\ lastOp' = OpRecord(caller, table, "update", err, {}, 0)
        /\ UNCHANGED nextId

----------------------------------------------------------------------------
(* Callers of the store's API: any holder of the project's public key, with *)
(* or without a session.  The statements they send carry every column.     *)

\* The category ids a statement refers to: those stored, and one that is not
\* (a reference to a category that is not stored fails whichever id it names)
CategoryRefs == Ids(categoriesTable) \cup {NewId}

CategoryPayloads ==
    [user_id : Users, name : Names, type : ApiTypes]

TransactionPayloads ==
    [user_id : Users, category_id : CategoryRefs,
     amount : ApiAmounts, date : ApiDates, type : ApiTypes]

BudgetPayloads ==
    [user_id : Users, category_id : CategoryRefs,
     amount : ApiAmounts, month : ApiMonths]

Payloads(table) ==
    CASE table = "categories" -> CategoryPayloads
      [] table = "transactions" -> TransactionPayloads
      [] table = "budgets" -> BudgetPayloads

\* The payloads caller tries.  A payload the insert policy refuses is refused
\* whatever its other columns hold, so one refused payload stands for all.
TriedPayloads(table, caller) ==
    LET passing == {p \in Payloads(table) : InsertWithCheck(table, caller, p)}
        refused == Payloads(table) \ passing
    IN  passing \cup (IF refused = {} THEN {} ELSE {CHOOSE p \in refused : TRUE})

\* The SET lists caller tries on a row of table: a new owner, or a new category
UpdateSets(table) ==
    [user_id : Users] \cup
    (IF table = "categories" THEN {} ELSE [category_id : CategoryRefs])

ApiInsert ==
    /\ \E caller \in Callers, table \in Tables :
          \E payload \in TriedPayloads(table, caller) :
              StoreInsert(caller, table, payload)
    /\ UNCHANGED <<clientVars, renderVars>>

ApiSelect ==
    /\ \E caller \in Callers, table \in Tables : StoreSelect(caller, table)
    /\ UNCHANGED <<clientVars, renderVars>>

\* targets are ids of stored rows: any other id hits nothing
ApiDelete ==
    /\ \E caller \in Callers, table \in Tables :
          \E target \in Ids(TableRows(table)) : StoreDelete(caller, table, target)
    /\ UNCHANGED <<clientVars, renderVars>>

ApiUpdate ==
    /\ \E caller \in Callers, table \in Tables :
          \E target \in Ids(TableRows(table)), set \in UpdateSets(table) :
              StoreUpdate(caller, table, target, set)
    /\ UNCHANGED <<clientVars, renderVars>>

----------------------------------------------------------------------------
(* The dashboard: one signed-in browser session *)

\* useAuth().user: the identity the session's requests carry
SessionUser == "u1"

\* .limit(100) of loadTransactions
TransactionLimit == 100

Views == {"overview", "transactions", "categories", "budgets"}

\* The value of a column an insert leaves out: the column's DEFAULT, NULL when
\* it has none.  user_id has none in any of the three tables.
ColumnDefault(table, column) ==
    IF column = "user_id" THEN NULL ELSE NoId

\* the row the store builds from what a form sends: the columns sent, and the
\* default of user_id, which no form sends
WithDefaults(table, sent) ==
    [user_id |-> ColumnDefault(table, "user_id")] @@ sent

Min(a, b) == IF a < b THEN a ELSE b

\* before the first render
NotRendered == [rendered |-> FALSE]

\* position of a name in ascending order
NameRank(name) == CASE name = "Food" -> 1 [] name = "Rent" -> 2 [] OTHER -> 0

CategoryKey(r) == NameRank(r.name)

TransactionKey(r) == r.date

BudgetKey(r) == r.month

\* the column a load of table orders by
OrderKey(table, r) ==
    CASE table = "categories" -> CategoryKey(r)
      [] table = "transactions" -> TransactionKey(r)
      [] table = "budgets" -> BudgetKey(r)

RECURSIVE AnyOrder(_)
\* the sequences that hold each row of a set once
AnyOrder(rows) ==
    IF rows = {} THEN {<<>>}
    ELSE UNION {{<<r>> \o f : f \in AnyOrder(rows \ {r})} : r \in rows}

RECURSIVE Ordered(_, _, _)
\* .order(column): the sequences a query may return for rows, rows of equal
\* key in any order.  The rows are split at the middle of their keys until
\* the keys of a part are equal.
Ordered(rows, table, ascending) ==
    LET keys == {OrderKey(table, r) : r \in rows}
        least == CHOOSE k \in keys : \A j \in keys : k <= j
        greatest == CHOOSE k \in keys : \A j \in keys : k >= j
        middle == (least + greatest) \div 2
        low == {r \in rows : OrderKey(table, r) <= middle}
    IN  IF rows = {} \/ least = greatest THEN AnyOrder(rows)
        ELSE {IF ascending THEN a \o b ELSE b \o a :
                 a \in Ordered(low, table, ascending),
                 b \in Ordered(rows \ low, table, ascending)}

\* a load of the transactions without .limit(100)
LoadResultsUnlimited(table) ==
    Ordered(Visible(table, SessionUser), table, table = "categories")

\* what a load of table may return to the session
LoadResults(table) ==
    CASE table = "transactions" ->
           {SubSeq(f, 1, Min(Len(f), TransactionLimit)) :
               f \in Ordered(Visible("transactions", SessionUser), table, FALSE)}
      [] table = "categories" ->
           Ordered(Visible("categories", SessionUser), table, TRUE)
      [] table = "budgets" ->
           Ordered(Visible("budgets", SessionUser), table, FALSE)

\* the answer to a load before the store has executed its query
NotAnswered == [state |-> "sent", data |-> <<>>]

LoadRequest(table, initial) ==
    [op |-> "load", table |-> table, initial |-> initial, answer |-> NotAnswered]

InsertRequest(table, sent) ==
    [op |-> "insert", table |-> table, sent |-> sent, mounted |-> TRUE]

DeleteRequest(table, id) ==
    [op |-> "delete", table |-> table, id |-> id]

\* requests without the one at position i
Without(i) ==
    SubSeq(requests, 1, i - 1) \o SubSeq(requests, i + 1, Len(requests))

\* the requests after the component that sent the inserts into table is
\* unmounted: their answers find no state to set
Unmounted(reqs, table) ==
    [i \in 1..Len(reqs) |->
        IF reqs[i].op = "insert" /\ reqs[i].table = table
        THEN [reqs[i] EXCEPT !.mounted = FALSE] ELSE reqs[i]]

CategoryManagerInit ==
    [showForm |-> FALSE, name |-> "", type |-> "expense", loading |-> FALSE]

\* amount 0 stands for the empty input; the date is the clock's UTC day
TransactionFormInit ==
    [type |-> "expense", amount |-> 0, categoryId |-> NoId, date |-> 14,
     loading |-> FALSE, error |-> ""]

BudgetManagerInit ==
    [showForm |-> FALSE, categoryId |-> NoId, amount |-> 0, month |-> 0,
     loading |-> FALSE]

\* no confirm() dialog is open
NoPrompt == [table |-> "none", id |-> NoId, answer |-> "none"]

\* confirm(...) of the handleDelete of table for the row id: the dialog is open
Prompt(table, id) == [table |-> table, id |-> id, answer |-> "open"]

\* a modal covers the page: nothing under it can be clicked
ModalOpen ==
    \/ showTransactionForm \/ categoryManager.showForm \/ budgetManager.showForm
    \/ prompt # NoPrompt

\* loadTransactions / loadCategories / loadBudgets, up to the await: the
\* query is sent
SendLoad(reqs, table) == Append(reqs, LoadRequest(table, FALSE))

\* the store executes the query of a load and answers with the caller's rows
LoadExecutes(i) ==
    LET req == requests[i]
    IN  /\ req.op = "load" /\ req.answer = NotAnswered
        /\ StoreSelect(SessionUser, req.table)
        /\ \E data \in LoadResults(req.table) :
              requests' = [requests EXCEPT ![i].answer = [state |-> "data", data |-> data]]
        /\ UNCHANGED <<renderVars, prompt, dashboardVars, formVars>>

LoadExecuted == \E i \in 1..Len(requests) : LoadExecutes(i)

\* the request of a load fails: the client library resolves with data null
LoadFails(i) ==
    LET req == requests[i]
    IN  /\ req.op = "load" /\ req.answer = NotAnswered
        /\ requests' = [requests EXCEPT ![i].answer = [state |-> "error", data |-> <<>>]]
        /\ UNCHANGED <<renderVars, storeVars, prompt, dashboardVars, formVars>>

LoadFailed == \E i \in 1..Len(requests) : LoadFails(i)

\* a loader of loadData that is not the last of the three to finish counts as
\* the last
AnyInitial(i) == requests[i].initial

\* a loadData that never reaches its setLoading(false)
NoInitial(i) == FALSE

\* Promise.all of loadData resolves with the last of its three loaders
LastInitial(i) ==
    /\ requests[i].initial
    /\ \A j \in 1..Len(requests) :
          j # i /\ requests[j].op = "load" => ~requests[j].initial

\* the answer to a load arrives: `if (data) setX(data)`, and after the last
\* loader of loadData setLoading(false).  No handler runs while a confirm()
\* dialog is open.
LoadReturns(i) ==
    LET req == requests[i]
        set(table, held) ==
            IF req.answer.state = "data" /\ req.table = table
            THEN req.answer.data ELSE held
    IN  /\ req.op = "load" /\ req.answer # NotAnswered
        /\ prompt = NoPrompt
        /\ transactions' = set("transactions", transactions)
        /\ categories' = set("categories", categories)
        /\ budgets' = set("budgets", budgets)
        /\ loading' = IF LastInitial(i) THEN FALSE ELSE loading
        /\ requests' = Without(i)
        /\ UNCHANGED <<renderVars, storeVars, prompt, view, showTransactionForm, formVars>>

LoadDone == \E i \in 1..Len(requests) : LoadReturns(i)

\* the user answers the dialog: confirm() returns true or false
Confirm ==
    /\ prompt.answer = "open"
    /\ \E answer \in {"yes", "no"} : prompt' = [prompt EXCEPT !.answer = answer]
    /\ UNCHANGED <<renderVars, storeVars, dashboardVars, formVars, requests>>

\* a handleDelete that sends the delete whatever confirm() returned
DeleteSentUnasked ==
    /\ prompt.answer \in {"yes", "no"}
    /\ requests' = Append(requests, DeleteRequest(prompt.table, prompt.id))
    /\ prompt' = NoPrompt
    /\ UNCHANGED <<renderVars, storeVars, dashboardVars, formVars>>

\* handleDelete after confirm(): `if (confirm(...))` the delete is sent,
\* otherwise the handler ends
DeleteSent ==
    /\ prompt.answer \in {"yes", "no"}
    /\ requests' = IF prompt.answer = "yes"
                   THEN Append(requests, DeleteRequest(prompt.table, prompt.id))
                   ELSE requests
    /\ prompt' = NoPrompt
    /\ UNCHANGED <<renderVars, storeVars, dashboardVars, formVars>>

\* setView(v): the manager of the view left is unmounted, the one of the view
\* entered is mounted with its initial state
SetView ==
    \E v \in Views :
        /\ ~loading /\ ~ModalOpen /\ v # view
        /\ view' = v
        /\ categoryManager' = CategoryManagerInit
        /\ budgetManager' = BudgetManagerInit
        /\ requests' = Unmounted(Unmounted(requests, "categories"), "budgets")
        /\ UNCHANGED <<renderVars, prompt, storeVars, loading, showTransactionForm, transactions,
                       categories, budgets, transactionForm>>

----------------------------------------------------------------------------
(* CategoryManager *)

CategoryFormNames == {"", "Food"}

CategoryOpenForm ==
    /\ view = "categories" /\ ~loading /\ ~ModalOpen
    /\ categoryManager' = [categoryManager EXCEPT !.showForm = TRUE]
    /\ UNCHANGED <<renderVars, prompt, storeVars, dashboardVars, transactionForm, budgetManager, requests>>

CategoryCancel ==
    /\ categoryManager.showForm
    /\ categoryManager' = [categoryManager EXCEPT !.showForm = FALSE]
    /\ UNCHANGED <<renderVars, prompt, storeVars, dashboardVars, transactionForm, budgetManager, requests>>

\* the inputs of the form: setName, setType
CategoryEdit ==
    /\ categoryManager.showForm
    /\ \E name \in CategoryFormNames, type \in Types :
          /\ <<name, type>> # <<categoryManager.name, categoryManager.type>>
          /\ categoryManager' = [categoryManager EXCEPT !.name = name, !.type = type]
    /\ UNCHANGED <<renderVars, prompt, storeVars, dashboardVars, transactionForm, budgetManager, requests>>

\* handleSubmit up to the await.  The browser submits only with the required
\* name filled in and the submit button enabled.
CategorySubmit ==
    /\ categoryManager.showForm /\ ~categoryManager.loading
    /\ categoryManager.name # ""
    /\ Len(requests) < MaxRequests
    /\ categoryManager' = [categoryManager EXCEPT !.loading = TRUE]
    /\ requests' = Append(requests,
           InsertRequest("categories",
               [name |-> categoryManager.name, type |-> categoryManager.type]))
    /\ UNCHANGED <<renderVars, prompt, storeVars, dashboardVars, transactionForm, budgetManager>>

\* handleSubmit from the await on: the answer is not looked at
CategoryInsertReturns(i) ==
    LET req == requests[i]
    IN  /\ req.op = "insert" /\ req.table = "categories"
        /\ prompt = NoPrompt
        /\ StoreInsert(SessionUser, "categories", WithDefaults("categories", req.sent))
        /\ categoryManager' =
              IF req.mounted THEN CategoryManagerInit ELSE categoryManager
        /\ requests' = SendLoad(Without(i), "categories")
        /\ UNCHANGED <<renderVars, prompt, dashboardVars, transactionForm, budgetManager>>

CategoryInsertDone == \E i \in 1..Len(requests) : CategoryInsertReturns(i)

\* handleDelete up to confirm(): the dialog opens
CategoryDelete ==
    /\ view = "categories" /\ ~loading /\ ~ModalOpen
    /\ Len(requests) < MaxRequests
    /\ \E i \in 1..Len(categories) : prompt' = Prompt("categories", categories[i].id)
    /\ UNCHANGED <<renderVars, storeVars, dashboardVars, formVars, requests>>

\* handleDelete from the await on: onUpdate() is loadCategories
CategoryDeleteReturns(i) ==
    LET req == requests[i]
    IN  /\ req.op = "delete" /\ req.table = "categories"
        /\ prompt = NoPrompt
        /\ StoreDelete(SessionUser, "categories", req.id)
        /\ requests' = SendLoad(Without(i), "categories")
        /\ UNCHANGED <<renderVars, prompt, dashboardVars, formVars>>

CategoryDeleteDone == \E i \in 1..Len(requests) : CategoryDeleteReturns(i)

----------------------------------------------------------------------------
(* TransactionForm and TransactionList *)

\* amounts a form's number input holds, in cents; 0 is the empty input
FormAmounts == {0, 5000}

FormDates == {14}

\* transactions.slice(0, 10) of the overview
RecentCount == 10

\* categories.filter(c => c.type === type)
filteredCategories(type) == SelectSeq(categories, LAMBDA c : c.type = type)

SeqIds(rows) == {rows[i].id : i \in 1..Len(rows)}

\* "Add Transaction": the form is mounted with its initial state
TransactionOpenForm ==
    /\ view \in {"overview", "transactions"} /\ ~loading /\ ~ModalOpen
    /\ showTransactionForm' = TRUE
    /\ transactionForm' = TransactionFormInit
    /\ UNCHANGED <<renderVars, prompt, storeVars, view, loading, transactions, categories, budgets,
                   categoryManager, budgetManager, requests>>

\* onClose: the form is unmounted
TransactionClose ==
    /\ showTransactionForm
    /\ showTransactionForm' = FALSE
    /\ transactionForm' = TransactionFormInit
    /\ requests' = Unmounted(requests, "transactions")
    /\ UNCHANGED <<renderVars, prompt, storeVars, view, loading, transactions, categories, budgets,
                   categoryManager, budgetManager>>

\* type buttons that keep the category selected: setType(t) alone
TransactionSetTypeOnly ==
    /\ showTransactionForm
    /\ \E t \in Types :
          /\ t # transactionForm.type
          /\ transactionForm' = [transactionForm EXCEPT !.type = t]
    /\ UNCHANGED <<renderVars, prompt, storeVars, dashboardVars, categoryManager, budgetManager, requests>>

\* the type buttons: setType(t); setCategoryId('')
TransactionSetType ==
    /\ showTransactionForm
    /\ \E t \in Types :
          /\ <<t, NoId>> # <<transactionForm.type, transactionForm.categoryId>>
          /\ transactionForm' = [transactionForm EXCEPT !.type = t, !.categoryId = NoId]
    /\ UNCHANGED <<renderVars, prompt, storeVars, dashboardVars, categoryManager, budgetManager, requests>>

\* the select offers the empty option and the categories of the form's type
TransactionSetCategory ==
    /\ showTransactionForm
    /\ \E id \in {NoId} \cup SeqIds(filteredCategories(transactionForm.type)) :
          /\ id # transactionForm.categoryId
          /\ transactionForm' = [transactionForm EXCEPT !.categoryId = id]
    /\ UNCHANGED <<renderVars, prompt, storeVars, dashboardVars, categoryManager, budgetManager, requests>>

\* the amount and date inputs
TransactionEdit ==
    /\ showTransactionForm
    /\ \E amount \in FormAmounts, date \in FormDates :
          /\ <<amount, date>> # <<transactionForm.amount, transactionForm.date>>
          /\ transactionForm' = [transactionForm EXCEPT !.amount = amount, !.date = date]
    /\ UNCHANGED <<renderVars, prompt, storeVars, dashboardVars, categoryManager, budgetManager, requests>>

\* handleSubmit up to the await.  The browser submits only with the required
\* inputs filled in (amount at least 0.01, a category among the options) and
\* the submit button enabled.
TransactionSubmit ==
    /\ showTransactionForm /\ ~transactionForm.loading
    /\ transactionForm.amount > 0
    /\ transactionForm.categoryId \in SeqIds(filteredCategories(transactionForm.type))
    /\ Len(requests) < MaxRequests
    /\ transactionForm' = [transactionForm EXCEPT !.error = "", !.loading = TRUE]
    /\ requests' = Append(requests,
           InsertRequest("transactions",
               [type |-> transactionForm.type, amount |-> transactionForm.amount,
                category_id |-> transactionForm.categoryId,
                date |-> transactionForm.date]))
    /\ UNCHANGED <<renderVars, prompt, storeVars, dashboardVars, categoryManager, budgetManager>>

\* handleSubmit from the await on: with an error the form shows it and
\* enables the button again, without one onSuccess() reloads the transactions
\* and closes the form
TransactionInsertReturns(i) ==
    LET req == requests[i]
        row == WithDefaults("transactions", req.sent)
        submitError == InsertError("transactions", SessionUser, [id |-> NewId] @@ row)
    IN  /\ req.op = "insert" /\ req.table = "transactions"
        /\ prompt = NoPrompt
        /\ StoreInsert(SessionUser, "transactions", row)
        /\ IF submitError # "ok"
           THEN /\ transactionForm' =
                      IF req.mounted
                      THEN [transactionForm EXCEPT !.error = submitError, !.loading = FALSE]
                      ELSE transactionForm
                /\ requests' = Without(i)
                /\ UNCHANGED showTransactionForm
           ELSE /\ showTransactionForm' = FALSE
                /\ transactionForm' = TransactionFormInit
                /\ requests' = SendLoad(Unmounted(Without(i), "transactions"),
                                        "transactions")
        /\ UNCHANGED <<renderVars, prompt, view, loading, transactions, categories, budgets,
                       categoryManager, budgetManager>>

TransactionInsertDone == \E i \in 1..Len(requests) : TransactionInsertReturns(i)

\* the rows TransactionList is given in the view shown
ListedTransactions ==
    IF view = "overview" THEN SubSeq(transactions, 1, Min(Len(transactions), RecentCount))
    ELSE IF view = "transactions" THEN transactions
    ELSE <<>>

\* handleDelete up to confirm(): the dialog opens, with fewer than cap
\* requests under way
TransactionDeleteWithin(cap) ==
    /\ ~loading /\ ~ModalOpen
    /\ Len(requests) < cap
    /\ \E i \in 1..Len(ListedTransactions) :
          prompt' = Prompt("transactions", ListedTransactions[i].id)
    /\ UNCHANGED <<renderVars, storeVars, dashboardVars, formVars, requests>>

TransactionDelete == TransactionDeleteWithin(MaxRequests)

\* handleDelete from the await on: onUpdate() is loadTransactions
TransactionDeleteReturns(i) ==
    LET req == requests[i]
    IN  /\ req.op = "delete" /\ req.table = "transactions"
        /\ prompt = NoPrompt
        /\ StoreDelete(SessionUser, "transactions", req.id)
        /\ requests' = SendLoad(Without(i), "transactions")
        /\ UNCHANGED <<renderVars, prompt, dashboardVars, formVars>>

TransactionDeleteDone == \E i \in 1..Len(requests) : TransactionDeleteReturns(i)

----------------------------------------------------------------------------
(* BudgetManager *)

\* first-of-month day numbers the month input is set to
FormMonths == {0, 31}

\* categories.filter(c => c.type === 'expense')
expenseCategories == SelectSeq(categories, LAMBDA c : c.type = "expense")

BudgetOpenForm ==
    /\ view = "budgets" /\ ~loading /\ ~ModalOpen
    /\ budgetManager' = [budgetManager EXCEPT !.showForm = TRUE]
    /\ UNCHANGED <<renderVars, prompt, storeVars, dashboardVars, categoryManager, transactionForm, requests>>

BudgetCancel ==
    /\ budgetManager.showForm
    /\ budgetManager' = [budgetManager EXCEPT !.showForm = FALSE]
    /\ UNCHANGED <<renderVars, prompt, storeVars, dashboardVars, categoryManager, transactionForm, requests>>

\* the inputs of the form: setCategoryId, setAmount, setMonth
BudgetEdit ==
    /\ budgetManager.showForm
    /\ \E id \in {NoId} \cup SeqIds(expenseCategories),
          amount \in FormAmounts, month \in FormMonths :
          /\ <<id, amount, month>> #
                <<budgetManager.categoryId, budgetManager.amount, budgetManager.month>>
          /\ budgetManager' = [budgetManager EXCEPT !.categoryId = id,
                                   !.amount = amount, !.month = month]
    /\ UNCHANGED <<renderVars, prompt, storeVars, dashboardVars, categoryManager, transactionForm, requests>>

\* handleSubmit up to the await; month + '-01' is the month's first day
BudgetSubmit ==
    /\ budgetManager.showForm /\ ~budgetManager.loading
    /\ budgetManager.amount > 0
    /\ budgetManager.categoryId \in SeqIds(expenseCategories)
    /\ Len(requests) < MaxRequests
    /\ budgetManager' = [budgetManager EXCEPT !.loading = TRUE]
    /\ requests' = Append(requests,
           InsertRequest("budgets",
               [category_id |-> budgetManager.categoryId,
                amount |-> budgetManager.amount, month |-> budgetManager.month]))
    /\ UNCHANGED <<renderVars, prompt, storeVars, dashboardVars, categoryManager, transactionForm>>

\* handleSubmit from the await on: the answer is not looked at
BudgetInsertReturns(i) ==
    LET req == requests[i]
    IN  /\ req.op = "insert" /\ req.table = "budgets"
        /\ prompt = NoPrompt
        /\ StoreInsert(SessionUser, "budgets", WithDefaults("budgets", req.sent))
        /\ budgetManager' = IF req.mounted THEN BudgetManagerInit ELSE budgetManager
        /\ requests' = SendLoad(Without(i), "budgets")
        /\ UNCHANGED <<renderVars, prompt, dashboardVars, categoryManager, transactionForm>>

BudgetInsertDone == \E i \in 1..Len(requests) : BudgetInsertReturns(i)

\* handleDelete up to confirm(): the dialog opens
BudgetDelete ==
    /\ view = "budgets" /\ ~loading /\ ~ModalOpen
    /\ Len(requests) < MaxRequests
    /\ \E i \in 1..Len(budgets) : prompt' = Prompt("budgets", budgets[i].id)
    /\ UNCHANGED <<renderVars, storeVars, dashboardVars, formVars, requests>>

\* handleDelete from the await on: onUpdate() is loadBudgets
BudgetDeleteReturns(i) ==
    LET req == requests[i]
    IN  /\ req.op = "delete" /\ req.table = "budgets"
        /\ prompt = NoPrompt
        /\ StoreDelete(SessionUser, "budgets", req.id)
        /\ requests' = SendLoad(Without(i), "budgets")
        /\ UNCHANGED <<renderVars, prompt, dashboardVars, formVars>>

BudgetDeleteDone == \E i \in 1..Len(requests) : BudgetDeleteReturns(i)

----------------------------------------------------------------------------
(* Other sessions of the account, beside the dashboard: they send complete  *)
(* rows that the store accepts                                              *)

OtherSessionPayloads(table) ==
    {p \in Payloads(table) :
        /\ p.user_id = SessionUser
        /\ table # "categories" => p.amount > 0 /\ p.category_id \in Ids(categoriesTable)}
    \cup (IF table = "categories"
          THEN [user_id : {SessionUser}, name : Names, type : Types] ELSE {})

OtherSessionInsert ==
    /\ nextId < MaxSeeds
    /\ \E table \in Tables :
          \E payload \in OtherSessionPayloads(table) :
              StoreInsert(SessionUser, table, payload)
    /\ UNCHANGED <<clientVars, renderVars>>

----------------------------------------------------------------------------
(* The calendar.  Dates are day numbers, day 0 being 2024-01-01; instants  *)
(* are hours since 2024-01-01T00:00Z; tz is the offset of the browser's    *)
(* local time from UTC, in hours.  Months are numbered from January 2024,  *)
(* month 0, with December 2023 as month -1.                                *)

HoursPerDay == 24

Months == -1..4

\* the day number of the first day of month m
FirstDay(m) ==
    CASE m = -1 -> -31 [] m = 0 -> 0 [] m = 1 -> 31 [] m = 2 -> 60
      [] m = 3 -> 91 [] m = 4 -> 121 [] OTHER -> 152

\* the month a day lies in
MonthOfDay(day) ==
    CHOOSE m \in Months : FirstDay(m) <= day /\ day < FirstDay(m + 1)

\* the UTC calendar day of an instant
UtcDay(instant) == instant \div HoursPerDay

\* the local calendar day of an instant
LocalDay(instant, zone) == (instant + zone) \div HoursPerDay

\* new Date('YYYY-MM-DD'): a date-only string is midnight UTC of that day
DateOfString(day) == day * HoursPerDay

\* new Date(year, month, day): midnight local time of that day
DateOfLocalFields(day, zone) == day * HoursPerDay - zone

----------------------------------------------------------------------------
(* Dashboard totals and Stats *)

RECURSIVE SumFromOne(_)
\* a reduce whose initial value is one cent
SumFromOne(rows) ==
    IF rows = <<>> THEN 1
    ELSE SumFromOne(SubSeq(rows, 1, Len(rows) - 1)) + rows[Len(rows)].amount

\* .reduce((sum, t) => sum + Number(t.amount), 0), amounts in cents
RECURSIVE SumAmounts(_)
SumAmounts(rows) ==
    IF rows = <<>> THEN 0
    ELSE SumAmounts(SubSeq(rows, 1, Len(rows) - 1)) + rows[Len(rows)].amount

\* a total that forgets the filter on the type
totalOfAll(rows) == SumAmounts(rows)

totalIncome(rows) == SumAmounts(SelectSeq(rows, LAMBDA t : t.type = "income"))

totalExpenses(rows) == SumAmounts(SelectSeq(rows, LAMBDA t : t.type = "expense"))

balance(rows) == totalIncome(rows) - totalExpenses(rows)

\* new Date().toISOString().slice(0, 7): the UTC month of the clock
currentMonth == MonthOfDay(UtcDay(now))

\* new Date(currentMonth + '-01')
monthStart == DateOfString(FirstDay(currentMonth))

\* new Date(monthStart.getFullYear(), monthStart.getMonth() + 1, 0): the
\* fields of monthStart are read in local time, and day 0 of the month after
\* is the last day of that local month, at midnight local time
monthEnd ==
    LET localMonth == MonthOfDay(LocalDay(monthStart, tz))
    IN  DateOfLocalFields(FirstDay(localMonth + 1) - 1, tz)

\* transactions.filter(t => tDate >= monthStart && tDate <= monthEnd)
monthTransactions ==
    SelectSeq(transactions,
              LAMBDA t : /\ DateOfString(t.date) >= monthStart
                         /\ DateOfString(t.date) <= monthEnd)

\* the length of the top-expenses list: .slice(0, 5)
TopCount == 5

\* .sort((a, b) => b.total - a.total): item goes in front of the first entry
\* the comparator puts it before, entries of equal total keep their order
RECURSIVE InsertByTotal(_, _)
InsertByTotal(sorted, item) ==
    IF sorted = <<>> THEN <<item>>
    ELSE IF Head(sorted).total - item.total < 0
         THEN <<item>> \o sorted
         ELSE <<Head(sorted)>> \o InsertByTotal(Tail(sorted), item)

\* a sort the other way round: (a, b) => a.total - b.total
RECURSIVE SortAscending(_)
SortAscending(items) ==
    IF Len(items) <= 1 THEN items
    ELSE LET rest == SortAscending(Tail(items))
             smaller == SelectSeq(rest, LAMBDA e : e.total < Head(items).total)
             others == SelectSeq(rest, LAMBDA e : e.total >= Head(items).total)
         IN  smaller \o <<Head(items)>> \o others

RECURSIVE SortByTotal(_)
SortByTotal(items) ==
    IF items = <<>> THEN <<>>
    ELSE InsertByTotal(SortByTotal(SubSeq(items, 1, Len(items) - 1)),
                       items[Len(items)])

\* a total of a category that counts its transactions of every type
CategoryTotalOfAllTypes(category) ==
    SumAmounts(SelectSeq(monthTransactions, LAMBDA t : t.category_id = category.id))

\* the total of one category: monthTransactions.filter(...).reduce(...)
CategoryTotal(category) ==
    SumAmounts(SelectSeq(monthTransactions,
                         LAMBDA t : t.category_id = category.id /\ t.type = "expense"))

\* categories.filter(c => c.type === 'expense').map(category => ...): every
\* expense category with its total
categoryTotals ==
    LET expense == SelectSeq(categories, LAMBDA c : c.type = "expense")
    IN  [i \in 1..Len(expense) |->
            [category |-> expense[i], total |-> CategoryTotal(expense[i])]]

expensesByCategory ==
    LET positive == SelectSeq(categoryTotals, LAMBDA item : item.total > 0)
        sorted == SortByTotal(positive)
    IN  SubSeq(sorted, 1, Min(Len(sorted), TopCount))

totalMonthExpenses ==
    SumAmounts(SelectSeq(monthTransactions, LAMBDA t : t.type = "expense"))

\* the days the trailing filter goes back: setDate(getDate() - 30)
TrailingDays == 30

\* Array.from({ length: 7 }, ...)
SeriesLength == 7

\* transactions.filter(t => tDate >= thirtyDaysAgo): thirtyDaysAgo is the
\* clock set back 30 days, the time of day kept
last30Days ==
    SelectSeq(transactions,
              LAMBDA t : DateOfString(t.date) >= now - TrailingDays * HoursPerDay)

\* dayTransactions.filter(t => t.type === type).reduce(...)
sumOfType(rows, type) == SumAmounts(SelectSeq(rows, LAMBDA t : t.type = type))

\* entry i of the series is the local day 6 - i days before the clock's; its
\* transactions are those whose date, taken as midnight UTC, reads as that
\* day in local time (toDateString)
dailyData ==
    [i \in 1..SeriesLength |->
        LET day == LocalDay(now, tz) - (SeriesLength - i)
            dayTransactions ==
                SelectSeq(last30Days,
                          LAMBDA t : LocalDay(DateOfString(t.date), tz) = day)
        IN  [date |-> day,
             expenses |-> sumOfType(dayTransactions, "expense"),
             income |-> sumOfType(dayTransactions, "income")]]

\* getSpentAmount(categoryId, budgetMonth) of BudgetManager: monthStart is
\* midnight UTC of the budget's month, monthEnd midnight local time of the
\* last day of the month monthStart reads as in local time
getSpentAmount(categoryId, budgetMonth) ==
    LET start == DateOfString(budgetMonth)
        end == DateOfLocalFields(
                   FirstDay(MonthOfDay(LocalDay(start, tz)) + 1) - 1, tz)
    IN  SumAmounts(SelectSeq(transactions,
            LAMBDA t : /\ t.category_id = categoryId
                       /\ t.type = "expense"
                       /\ DateOfString(t.date) >= start
                       /\ DateOfString(t.date) <= end))

Percent == 100

\* a budget that counts as over once it is used up
isAtOrOverBudget(spent, amount) == spent >= amount

\* spent > Number(budget.amount)
isOverBudget(spent, amount) == spent > amount

\* (spent / Number(budget.amount)) * 100, as the fraction num / den
percentage(spent, amount) == [num |-> spent * Percent, den |-> amount]

\* Math.min(percentage, 100)
barWidth(p) ==
    IF p.num > Percent * p.den THEN [num |-> Percent, den |-> 1] ELSE p

\* percentage.toFixed(0): the nearest integer, a half rounded up
toFixed0(p) == (2 * p.num + p.den) \div (2 * p.den)

\* percentage.toFixed(1) cut off after the first decimal
truncated1(p) == (10 * p.num) \div p.den

\* percentage.toFixed(1), in tenths of a percent: the nearest tenth, a half
\* rounded up
toFixed1(p) ==
    10 * (p.num \div p.den) + (20 * (p.num % p.den) + p.den) \div (2 * p.den)

\* expensesByCategory.map(({ category, total }) => ...): each entry with
\* percentage = (total / totalMonthExpenses) * 100 as the width of its bar
\* and percentage.toFixed(1) as its label
expenseBars ==
    LET entries == expensesByCategory
        month == totalMonthExpenses
    IN  [i \in 1..Len(entries) |->
            [category |-> entries[i].category,
             total |-> entries[i].total,
             width |-> percentage(entries[i].total, month),
             label |-> toFixed1(percentage(entries[i].total, month))]]

\* the floor 100 of maxAmount, in cents
MaxAmountFloor == 10000

\* Math.max of two numbers
Max(a, b) == IF a > b THEN a ELSE b

RECURSIVE MaxOfDays(_, _)
\* Math.max(...days.map(d => Math.max(d.expenses, d.income)), floor)
MaxOfDays(days, floor) ==
    IF days = <<>> THEN floor
    ELSE Max(Max(Head(days).expenses, Head(days).income),
             MaxOfDays(Tail(days), floor))

maxAmountOf(days) == MaxOfDays(days, MaxAmountFloor)

maxAmount == maxAmountOf(dailyData)

\* the widths of the two bars of each day: (value / maxAmount) * 100
dayBarsOf(days, most) ==
    [i \in 1..Len(days) |->
        [expenses |-> percentage(days[i].expenses, most),
         income |-> percentage(days[i].income, most)]]

dayBars == dayBarsOf(dailyData, maxAmount)

\* the card of one budget
budgetCard(budget) ==
    LET spent == getSpentAmount(budget.category_id, budget.month)
    IN  [budget |-> budget,
         spent |-> spent,
         isOverBudget |-> isOverBudget(spent, budget.amount),
         width |-> barWidth(percentage(spent, budget.amount)),
         used |-> toFixed0(percentage(spent, budget.amount)),
         overBy |-> IF isOverBudget(spent, budget.amount)
                    THEN <<spent - budget.amount>> ELSE <<>>]

\* Dashboard renders: the three cards of the overview
RenderDashboard ==
    /\ ~loading /\ view = "overview"
    /\ totals' = [rendered |-> TRUE,
                  totalIncome |-> totalIncome(transactions),
                  totalExpenses |-> totalExpenses(transactions),
                  balance |-> balance(transactions)]
    /\ UNCHANGED <<storeVars, clientVars, now, tz, stats, budgetCards>>

\* Stats renders
RenderStats ==
    /\ ~loading /\ view = "overview"
    /\ LET days == dailyData
           most == maxAmountOf(days)
       IN  stats' = [rendered |-> TRUE,
                     monthTransactions |-> monthTransactions,
                     expensesByCategory |-> expensesByCategory,
                     totalMonthExpenses |-> totalMonthExpenses,
                     categoryTotals |-> categoryTotals,
                     dailyData |-> days,
                     expenseBars |-> expenseBars,
                     maxAmount |-> most,
                     dayBars |-> dayBarsOf(days, most)]
    /\ UNCHANGED <<storeVars, clientVars, now, tz, totals, budgetCards>>

\* BudgetManager renders: budgets.map(budget => card)
RenderBudgets ==
    /\ ~loading /\ view = "budgets"
    /\ budgetCards' = [rendered |-> TRUE,
                       cards |-> [i \in 1..Len(budgets) |-> budgetCard(budgets[i])]]
    /\ UNCHANGED <<storeVars, clientVars, now, tz, totals, stats>>

----------------------------------------------------------------------------
(* Properties of the store *)

Added(table) == TableRows(table)' \ TableRows(table)

Gone(table) == TableRows(table) \ TableRows(table)'

\* C1: row level security, table by table.  In every step, the rows a
\* statement adds to a table (an insert, or the new version of an updated
\* row) are owned by its caller; the rows it removes from the table it is
\* issued on, or rewrites there, are owned by its caller; the rows a select
\* returns are owned by its caller; and a statement of a caller without a
\* session changes no table and returns no row.  Rows that leave another
\* table through ON DELETE CASCADE are not the statement's own and are left
\* out of this property.
C1_RowSecurity ==
    [][ /\ \A table \in Tables :
              /\ \A r \in Added(table) :
                    /\ lastOp'.cmd \in {"insert", "update"}
                    /\ lastOp'.table = table
                    /\ lastOp'.caller \in Users
                    /\ r.user_id = lastOp'.caller
              /\ lastOp'.table = table =>
                    \A r \in Gone(table) :
                        /\ lastOp'.cmd \in {"delete", "update"}
                        /\ lastOp'.caller \in Users
                        /\ r.user_id = lastOp'.caller
        /\ \A r \in lastOp'.rows :
              lastOp'.caller \in Users /\ r.user_id = lastOp'.caller
        /\ lastOp'.caller = Anon =>
              /\ UNCHANGED <<categoriesTable, transactionsTable, budgetsTable>>
              /\ lastOp'.rows = {}
      ]_vars

\* C1 witness: both users own transactions, u2 has just selected from the
\* table and was returned rows, none of them a row of u1
C1_Witness ==
    /\ lastOp.cmd = "select" /\ lastOp.table = "transactions" /\ lastOp.caller = "u2"
    /\ lastOp.rows # {}
    /\ \E r \in transactionsTable : r.user_id = "u1"

\* every transaction and every budget references a stored category
ReferencesExist ==
    /\ \A t \in transactionsTable : t.category_id \in Ids(categoriesTable)
    /\ \A b \in budgetsTable : b.category_id \in Ids(categoriesTable)

\* C3: after any sequence of statements no stored transaction or budget
\* references a category that is not stored; the delete of a category takes the
\* rows that reference it with it.
C3_CascadeKeepsReferences == ReferencesExist

\* C3 witness: a category has just been deleted and a transaction and a budget
\* went with it
C3_Witness ==
    /\ lastOp.cmd = "delete" /\ lastOp.table = "categories"
    /\ lastOp.cascaded >= 2
    /\ transactionsTable = {} /\ budgetsTable = {}

SameTriple(a, b) ==
    a.user_id = b.user_id /\ a.category_id = b.category_id /\ a.month = b.month

\* C4: the store holds at most one budget per (user_id, category_id, month),
\* and a statement on budgets that ends with a uniqueness violation leaves the
\* budgets as they were.
C4_OneBudgetPerTriple ==
    [][ /\ \A a, b \in budgetsTable' : SameTriple(a, b) => a = b
        /\ (lastOp'.table = "budgets" /\ lastOp'.err = "unique") =>
              budgetsTable' = budgetsTable
      ]_vars

\* C4 witness: an insert of a budget has just been refused for uniqueness,
\* with a budget stored
C4_Witness ==
    /\ lastOp.cmd = "insert" /\ lastOp.table = "budgets" /\ lastOp.err = "unique"
    /\ budgetsTable # {}

\* C7, as claimed: every transaction and every budget references a category of
\* its own owner.
C7_Claimed_SameOwnerReference ==
    /\ \A t \in transactionsTable :
          \E c \in categoriesTable : c.id = t.category_id /\ c.user_id = t.user_id
    /\ \A b \in budgetsTable :
          \E c \in categoriesTable : c.id = b.category_id /\ c.user_id = b.user_id

----------------------------------------------------------------------------
(* Properties of the forms *)

\* the answer to the insert of a form of the session arrives
FormInsertReturns(i, table) ==
    /\ requests[i].op = "insert" /\ requests[i].table = table
    /\ CASE table = "categories" -> CategoryInsertReturns(i)
         [] table = "transactions" -> TransactionInsertReturns(i)
         [] table = "budgets" -> BudgetInsertReturns(i)

\* C2, as claimed: the insert a form of the signed-in user issues is accepted
\* by the store, and the row stored is owned by that user.
C2_Claimed_FormInsertAccepted ==
    [][ \A i \in 1..Len(requests) : \A table \in Tables :
            FormInsertReturns(i, table) =>
                /\ lastOp'.err = "ok"
                /\ \E r \in Added(table) : r.user_id = SessionUser
      ]_vars

\* the submission in flight at position i is for a triple the store already
\* holds a budget of the session's user for
DuplicateBudget(i) ==
    /\ requests[i].op = "insert" /\ requests[i].table = "budgets"
    /\ \E b \in budgetsTable :
          /\ b.user_id = SessionUser
          /\ b.category_id = requests[i].sent.category_id
          /\ b.month = requests[i].sent.month

\* C5, as claimed: when the store rejects the insert of a budget for a triple
\* that already has one, the budget form, still mounted, does not finish as it
\* does after a success (form closed, inputs reset): it stays to show an error.
C5_Claimed_DuplicateBudgetSurfaced ==
    [][ \A i \in 1..Len(requests) :
            ( /\ DuplicateBudget(i) /\ requests[i].mounted
              /\ BudgetInsertReturns(i)
              /\ lastOp'.err # "ok" ) =>
                budgetManager' # BudgetManagerInit
      ]_vars

\* C6, as claimed: when the store rejects the insert of a form that is open,
\* the stored rows are unchanged, the form stays open with the values entered,
\* its loading flag is false again, and no insert is sent in its place.
C6_Claimed_RejectedInsertKeepsForm ==
    [][ \A i \in 1..Len(requests) : \A table \in Tables :
            ( /\ FormInsertReturns(i, table) /\ requests[i].mounted
              /\ lastOp'.err # "ok" ) =>
                /\ UNCHANGED <<categoriesTable, transactionsTable, budgetsTable>>
                /\ \A j \in 1..Len(requests') : requests'[j].op # "insert"
                /\ table = "categories" /\ categoryManager.showForm =>
                      categoryManager' = [categoryManager EXCEPT !.loading = FALSE]
                /\ table = "transactions" =>
                      /\ showTransactionForm'
                      /\ transactionForm'.loading = FALSE
                      /\ \A f \in {"type", "amount", "categoryId", "date"} :
                            transactionForm'[f] = transactionForm[f]
                /\ table = "budgets" /\ budgetManager.showForm =>
                      budgetManager' = [budgetManager EXCEPT !.loading = FALSE]
      ]_vars

----------------------------------------------------------------------------

Init ==
    /\ categoriesTable = {}
    /\ transactionsTable = {}
    /\ budgetsTable = {}
    /\ nextId = 0
    /\ lastOp = OpRecord(Anon, "categories", "select", "ok", {}, 0)
    /\ view = "overview"
    /\ loading = TRUE
    /\ showTransactionForm = FALSE
    /\ transactions = <<>>
    /\ categories = <<>>
    /\ budgets = <<>>
    /\ categoryManager = CategoryManagerInit
    /\ transactionForm = TransactionFormInit
    /\ budgetManager = BudgetManagerInit
    /\ requests = <<LoadRequest("transactions", TRUE), LoadRequest("categories", TRUE),
                    LoadRequest("budgets", TRUE)>>
    /\ prompt = NoPrompt
    /\ now = 348
    /\ tz = 0
    /\ totals = NotRendered
    /\ stats = NotRendered
    /\ budgetCards = NotRendered

Next ==
    \/ ApiInsert
    \/ ApiSelect
    \/ ApiDelete
    \/ ApiUpdate

Spec == Init /\ [][Next]_vars

ClientNext ==
    \/ OtherSessionInsert
    \/ LoadExecuted
    \/ LoadFailed
    \/ LoadDone
    \/ Confirm
    \/ DeleteSent
    \/ SetView
    \/ CategoryOpenForm
    \/ CategoryCancel
    \/ CategoryEdit
    \/ CategorySubmit
    \/ CategoryInsertDone
    \/ CategoryDelete
    \/ CategoryDeleteDone
    \/ TransactionOpenForm
    \/ TransactionClose
    \/ TransactionSetType
    \/ TransactionSetCategory
    \/ TransactionEdit
    \/ TransactionSubmit
    \/ TransactionInsertDone
    \/ TransactionDelete
    \/ TransactionDeleteDone
    \/ BudgetOpenForm
    \/ BudgetCancel
    \/ BudgetEdit
    \/ BudgetSubmit
    \/ BudgetInsertDone
    \/ BudgetDelete
    \/ BudgetDeleteDone

ClientSpec == Init /\ [][ClientNext]_vars

\* the dashboard is mounted over a store other sessions write to: it loads,
\* renders and changes views
MountNext ==
    \/ OtherSessionInsert
    \/ LoadExecuted
    \/ LoadFailed
    \/ LoadDone
    \/ SetView
    \/ RenderDashboard
    \/ RenderStats
    \/ RenderBudgets

MountSpec == Init /\ [][MountNext]_vars

----------------------------------------------------------------------------
(* Deletes in quick succession from the list of all transactions: the user  *)
(* clicks the next delete while the reload after the one before is under    *)
(* way.  Every request is answered, none fails.                             *)

\* requests of the dashboard under way at a time when the user does not wait
MaxOverlap == 2

RaceInit ==
    /\ categoriesTable =
          {[id |-> 1, user_id |-> SessionUser, name |-> "Food", type |-> "expense"]}
    /\ transactionsTable =
          {[id |-> 1 + k, user_id |-> SessionUser, type |-> "expense",
            amount |-> 1000, category_id |-> 1, date |-> k] : k \in 1..MaxRows}
    /\ budgetsTable = {}
    /\ nextId = 1 + MaxRows
    /\ lastOp = OpRecord(SessionUser, "budgets", "select", "ok", {}, 0)
    /\ view = "transactions"
    /\ loading = FALSE
    /\ showTransactionForm = FALSE
    /\ transactions \in LoadResults("transactions")
    /\ categories \in LoadResults("categories")
    /\ budgets = <<>>
    /\ categoryManager = CategoryManagerInit
    /\ transactionForm = TransactionFormInit
    /\ budgetManager = BudgetManagerInit
    /\ requests = <<>>
    /\ prompt = NoPrompt
    /\ now = 348
    /\ tz = 0
    /\ totals = NotRendered
    /\ stats = NotRendered
    /\ budgetCards = NotRendered

\* the user clicks a delete when no delete is under way
RaceNext ==
    \/ /\ \A i \in 1..Len(requests) : requests[i].op # "delete"
       /\ TransactionDeleteWithin(MaxOverlap)
    \/ Confirm
    \/ DeleteSent
    \/ TransactionDeleteDone
    \/ LoadExecuted
    \/ LoadDone

RaceSpec == RaceInit /\ [][RaceNext]_vars

----------------------------------------------------------------------------
(* Loads from a store that holds about as many transactions of the user as  *)
(* the limit of loadTransactions: the dashboard is mounted and loads, and    *)
(* the user deletes a transaction of the overview                            *)

\* transactions stored beyond the limit, at most
MaxBeyond == 2

\* the n transactions of the user, one a day from day 1 on; with tie, the two
\* around the limit (the 100th and the 101st latest) are of the same day
StoredTransactions(n, tie) ==
    {[id |-> k, user_id |-> SessionUser, type |-> "expense", amount |-> 1000,
      category_id |-> n + 1,
      date |-> IF tie /\ k = n - TransactionLimit THEN k + 1 ELSE k] : k \in 1..n}

\* the rows beside them: two categories of the user, stored against the order
\* of their names, two budgets stored against the order of their months, and
\* a category and a transaction of another user, later than all
StoredBeside(n) ==
    [categories |->
        {[id |-> n + 1, user_id |-> SessionUser, name |-> "Rent", type |-> "expense"],
         [id |-> n + 2, user_id |-> SessionUser, name |-> "Food", type |-> "expense"],
         [id |-> n + 3, user_id |-> "u2", name |-> "Food", type |-> "expense"]},
     budgets |->
        {[id |-> n + 4, user_id |-> SessionUser, category_id |-> n + 1,
          amount |-> 5000, month |-> 0],
         [id |-> n + 5, user_id |-> SessionUser, category_id |-> n + 1,
          amount |-> 5000, month |-> 31]},
     transactions |->
        {[id |-> n + 6, user_id |-> "u2", type |-> "expense", amount |-> 1000,
          category_id |-> n + 3, date |-> n + 1]}]

LoadInit ==
    /\ \E n \in (TransactionLimit - 1)..(TransactionLimit + MaxBeyond) :
          \E tie \in {t \in BOOLEAN : t => n > TransactionLimit} :
              /\ transactionsTable =
                    StoredTransactions(n, tie) \cup StoredBeside(n).transactions
              /\ categoriesTable = StoredBeside(n).categories
              /\ budgetsTable = StoredBeside(n).budgets
              /\ nextId = n + 6
    /\ lastOp = OpRecord(Anon, "categories", "select", "ok", {}, 0)
    /\ view = "overview"
    /\ loading = TRUE
    /\ showTransactionForm = FALSE
    /\ transactions = <<>>
    /\ categories = <<>>
    /\ budgets = <<>>
    /\ categoryManager = CategoryManagerInit
    /\ transactionForm = TransactionFormInit
    /\ budgetManager = BudgetManagerInit
    /\ requests = <<LoadRequest("transactions", TRUE), LoadRequest("categories", TRUE),
                    LoadRequest("budgets", TRUE)>>
    /\ prompt = NoPrompt
    /\ now = 348
    /\ tz = 0
    /\ totals = NotRendered
    /\ stats = NotRendered
    /\ budgetCards = NotRendered

\* the user deletes while the store holds the most rows
LoadNext ==
    \/ LoadExecuted
    \/ LoadFailed
    \/ LoadDone
    \/ /\ Cardinality(transactionsTable) > TransactionLimit + MaxBeyond
       /\ TransactionDelete
    \/ Confirm
    \/ DeleteSent
    \/ TransactionDeleteDone

LoadSpec == LoadInit /\ [][LoadNext]_vars

----------------------------------------------------------------------------
(* The aggregates over loaded lists: the inputs are drawn in the initial   *)
(* state, the session has finished loading and shows the overview          *)

\* transactions in a list of the totals inputs
MaxTx == 3

\* expense categories of the session's user
MaxCategories == 6

\* browser time zones: New York in winter, UTC, Athens in winter
Zones == {-5, 0, 2}

\* the clock: 2024-01-01T02:00Z, 2024-01-15T12:00Z, 2024-01-31T22:00Z
Clocks == {2, 348, 742}

\* dates around the ends of January 2024: 2023-12-31, 2024-01-01,
\* 2024-01-15, 2024-01-31, 2024-02-01
BoundaryDates == {-1, 0, 14, 30, 31}

CategoryNames ==
    <<"Bonus", "Dining", "Fuel", "Groceries", "Health", "Rent", "Travel",
      "Utilities", "Water">>

\* the categories loaded: one income category and MaxCategories expense
\* categories, in the order of their names
LoadedCategories ==
    [i \in 1..(MaxCategories + 1) |->
        [id |-> i, user_id |-> SessionUser, name |-> CategoryNames[i],
         type |-> IF i = 1 THEN "income" ELSE "expense"]]

LoadedTransaction(id, type, amount, category, date) ==
    [id |-> id, user_id |-> SessionUser, type |-> type, amount |-> amount,
     category_id |-> category, date |-> date]

\* lists of up to MaxTx transactions of one day, of either type
TotalsInputs ==
    UNION {[1..n -> {LoadedTransaction(0, type, amount,
                                        IF type = "income" THEN 1 ELSE 2, 14) :
                         type \in Types, amount \in {1000, 2500}}] : n \in 0..MaxTx}

\* lists of up to two expenses dated around the ends of the month, latest
\* first
MonthInputs ==
    {<<>>}
    \cup {<<LoadedTransaction(0, "expense", 1000, 2, d)>> : d \in BoundaryDates}
    \cup {<<LoadedTransaction(0, "expense", 1000, 2, d[1]),
            LoadedTransaction(0, "expense", 1000, 2, d[2])>> :
             d \in {e \in BoundaryDates \X BoundaryDates : e[2] <= e[1]}}

\* the transactions of a month in which expense category c has count[c]
\* expenses of c hundred cents each, after a salary and before an expense of
\* the month before
TopInput(count) ==
    LET slots == [s \in 1..(2 * MaxCategories) |->
                     LoadedTransaction(0, "expense", ((s + 1) \div 2 + 1) * 100,
                                       (s + 1) \div 2 + 1, 14)]
        taken == {s \in 1..(2 * MaxCategories) :
                     ((s - 1) % 2) + 1 <= count[(s + 1) \div 2]}
        RECURSIVE Pick(_)
        Pick(s) ==
            IF s > 2 * MaxCategories THEN <<>>
            ELSE (IF s \in taken THEN <<slots[s]>> ELSE <<>>) \o Pick(s + 1)
    IN  <<LoadedTransaction(0, "income", 90000, 1, 14)>>
        \o Pick(1)
        \o <<LoadedTransaction(0, "expense", 70000, 2, -1)>>

TopInputs == {TopInput(count) : count \in [1..MaxCategories -> 0..2]}

\* a category of the user created after the categories were loaded
UnloadedCategory ==
    [id |-> MaxCategories + 2, user_id |-> SessionUser,
     name |-> CategoryNames[MaxCategories + 2], type |-> "expense"]

\* lists of up to two transactions, latest first, among them expenses that
\* reference the income category, a category not loaded, or lie in the month
\* before
BreakdownInputs ==
    LET one == {LoadedTransaction(0, "expense", 1000, c, d) :
                   c \in {1, 2, 3, UnloadedCategory.id}, d \in {-1, 14}}
               \cup {LoadedTransaction(0, "income", 4000, 1, 14)}
    IN  {<<>>} \cup {<<t>> : t \in one}
        \cup {<<t[1], t[2]>> : t \in {u \in one \X one : u[2].date <= u[1].date}}

\* dates around the seven days that end on 2024-01-15: the day before the
\* first, the first, the day before the last, the last, the day after
SeriesDates == {7, 8, 13, 14, 15}

\* lists of up to two transactions of either type on those days, latest first
SeriesInputs ==
    LET one == {LoadedTransaction(0, type, 1000, IF type = "income" THEN 1 ELSE 2, d) :
                   type \in Types, d \in SeriesDates}
    IN  {<<>>} \cup {<<t>> : t \in one}
        \cup {<<t[1], t[2]>> : t \in {u \in one \X one : u[2].date <= u[1].date}}

\* lists of up to three expenses of 2024-01-15, one each in the categories 2,
\* 3 and 4, of a cent, of about a third of 100.00 and of 1000.00, alone or
\* followed by an income of 2000.00 booked on the expense category 2
ShareInputs ==
    LET expenses ==
            UNION {[1..n -> {1, 3328, 3336, 100000}] : n \in 1..3}
        list(amounts) ==
            [i \in 1..Len(amounts) |->
                LoadedTransaction(0, "expense", amounts[i], i + 1, 14)]
    IN  {list(a) : a \in expenses}
        \cup {list(a) \o <<LoadedTransaction(0, "income", 200000, 2, 14)>> :
                 a \in expenses}

\* transactions around a budget of category 2 for January 2024, latest
\* first: of the month after, of the last day, of 2024-01-05 (50.00 and
\* 30.00, an income, an expense of another category), of the first day
BudgetPool ==
    <<LoadedTransaction(0, "expense", 1200, 2, 31),
      LoadedTransaction(0, "expense", 2500, 2, 30),
      LoadedTransaction(0, "expense", 5000, 2, 4),
      LoadedTransaction(0, "expense", 3000, 2, 4),
      LoadedTransaction(0, "income", 4000, 2, 4),
      LoadedTransaction(0, "expense", 1000, 3, 4),
      LoadedTransaction(0, "expense", 1500, 2, 0)>>

RECURSIVE Chosen(_, _, _)
\* the entries of pool from position i on that are in the set taken
Chosen(pool, taken, i) ==
    IF i > Len(pool) THEN <<>>
    ELSE (IF i \in taken THEN <<pool[i]>> ELSE <<>>) \o Chosen(pool, taken, i + 1)

BudgetTransactionInputs ==
    {Chosen(BudgetPool, taken, 1) : taken \in SUBSET (1..Len(BudgetPool))}

LoadedBudget(id, category, amount, month) ==
    [id |-> id, user_id |-> SessionUser, category_id |-> category,
     amount |-> amount, month |-> month]

\* the budgets loaded, latest month first
BudgetInputs ==
    {<<>>,
     <<LoadedBudget(0, 2, 5000, 0)>>,
     <<LoadedBudget(0, 2, 8000, 0)>>,
     <<LoadedBudget(0, 2, 5000, 31), LoadedBudget(0, 2, 10000, 0)>>}

\* the rows of a list with ids that follow base
NumberedFrom(rows, base) ==
    [i \in 1..Len(rows) |-> [rows[i] EXCEPT !.id = base + i]]

\* the transactions of a list with their ids, which follow those of the
\* categories
Numbered(rows) == NumberedFrom(rows, MaxCategories + 2)

Range(f) == {f[i] : i \in DOMAIN f}

StatsInit ==
    /\ \/ /\ transactions \in {Numbered(l) : l \in TotalsInputs}
          /\ budgets = <<>> /\ now = 348 /\ tz \in Zones
       \/ /\ transactions \in {Numbered(l) : l \in MonthInputs}
          /\ budgets = <<>> /\ now \in Clocks /\ tz \in Zones
       \/ /\ transactions \in {Numbered(l) : l \in TopInputs}
          /\ budgets = <<>> /\ now = 348 /\ tz \in Zones
       \/ /\ transactions \in {Numbered(l) : l \in BreakdownInputs}
          /\ budgets = <<>> /\ now = 348 /\ tz \in Zones
       \/ /\ transactions \in {Numbered(l) : l \in SeriesInputs}
          /\ budgets = <<>> /\ now = 348 /\ tz \in Zones
       \/ /\ transactions \in {Numbered(l) : l \in ShareInputs}
          /\ budgets = <<>> /\ now = 348 /\ tz \in Zones
       \/ /\ transactions \in {Numbered(l) : l \in BudgetTransactionInputs}
          /\ budgets \in {NumberedFrom(l, MaxCategories + 2 + Len(transactions)) :
                              l \in BudgetInputs}
          /\ now = 348 /\ tz \in Zones
    /\ categories = LoadedCategories
    /\ categoriesTable = Range(categories) \cup {UnloadedCategory}
    /\ transactionsTable = Range(transactions)
    /\ budgetsTable = Range(budgets)
    /\ nextId = MaxCategories + 2 + Len(transactions) + Len(budgets)
    /\ lastOp = OpRecord(SessionUser, "budgets", "select", "ok", {}, 0)
    /\ view = "overview"
    /\ loading = FALSE
    /\ showTransactionForm = FALSE
    /\ categoryManager = CategoryManagerInit
    /\ transactionForm = TransactionFormInit
    /\ budgetManager = BudgetManagerInit
    /\ requests = <<>>
    /\ prompt = NoPrompt
    /\ totals = NotRendered
    /\ stats = NotRendered
    /\ budgetCards = NotRendered

StatsNext ==
    \/ RenderDashboard
    \/ RenderStats
    \/ RenderBudgets
    \/ SetView

StatsSpec == StatsInit /\ [][StatsNext]_vars

----------------------------------------------------------------------------
(* Properties of the aggregates *)

RECURSIVE SumOfSet(_, _)
\* the sum of the amounts of the rows of a list at the positions of a set
SumOfSet(rows, positions) ==
    IF positions = {} THEN 0
    ELSE LET i == CHOOSE j \in positions : TRUE
         IN  rows[i].amount + SumOfSet(rows, positions \ {i})

PositionsOfType(rows, type) == {i \in 1..Len(rows) : rows[i].type = type}

\* C8: once the dashboard has rendered, totalIncome is the sum of the amounts
\* of the loaded transactions of type income, totalExpenses the sum of those
\* of type expense, neither is negative, and balance is totalIncome minus
\* totalExpenses.
C8_Totals ==
    totals.rendered =>
        /\ totals.totalIncome =
              SumOfSet(transactions, PositionsOfType(transactions, "income"))
        /\ totals.totalExpenses =
              SumOfSet(transactions, PositionsOfType(transactions, "expense"))
        /\ totals.totalIncome >= 0
        /\ totals.totalExpenses >= 0
        /\ totals.balance = totals.totalIncome - totals.totalExpenses

\* C8 witness: the dashboard has rendered a list with income and with more
\* expenses than income, and shows a negative balance
C8_Witness ==
    /\ totals.rendered
    /\ totals.totalIncome > 0
    /\ totals.totalExpenses > totals.totalIncome
    /\ totals.balance < 0

\* C9, as claimed: whatever the clock and the time zone, a loaded transaction
\* is in the month-to-date set exactly when its date lies in the calendar
\* month of the reference date, first and last day included.
C9_Claimed_MonthToDate ==
    stats.rendered =>
        \A i \in 1..Len(transactions) :
            (transactions[i] \in Range(stats.monthTransactions))
                <=> (MonthOfDay(transactions[i].date) = MonthOfDay(UtcDay(now)))

\* the expenses of the month-to-date set in a category
MonthSum(category) ==
    SumOfSet(stats.monthTransactions,
             {i \in 1..Len(stats.monthTransactions) :
                 /\ stats.monthTransactions[i].category_id = category.id
                 /\ stats.monthTransactions[i].type = "expense"})

\* the parts of C10 that do not depend on the order of equal sums
TopExpensesWellFormed ==
    LET top == stats.expensesByCategory
        included == {top[i].category : i \in 1..Len(top)}
    IN  /\ Len(top) <= 5
        /\ \A i, j \in 1..Len(top) : top[i].category = top[j].category => i = j
        /\ \A i \in 1..Len(top) :
              /\ top[i].category \in Range(categories)
              /\ top[i].category.type = "expense"
              /\ top[i].total = MonthSum(top[i].category)
              /\ top[i].total > 0
        /\ \A c \in Range(categories) \ included :
              c.type = "expense" =>
                  \A i \in 1..Len(top) : MonthSum(c) <= top[i].total

\* C10: once Stats has rendered, the top-expenses list has at most 5 entries,
\* holds only expense categories whose sum over the month-to-date set is
\* greater than 0, each once and with that sum, is sorted descending by sum
\* with equal sums next to each other, and no expense category left out has a
\* larger sum than one in the list.
C10_TopExpenses ==
    stats.rendered =>
        /\ TopExpensesWellFormed
        /\ \A i \in 1..(Len(stats.expensesByCategory) - 1) :
              stats.expensesByCategory[i].total
                  >= stats.expensesByCategory[i + 1].total

\* C10 witness: six expense categories have expenses in the month, two of
\* them the same sum, and the list rendered is full and holds both
C10_Witness ==
    /\ stats.rendered
    /\ Len(stats.expensesByCategory) = 5
    /\ Cardinality({c \in Range(categories) :
                       c.type = "expense" /\ MonthSum(c) > 0}) > 5
    /\ \E i \in 1..4 :
          stats.expensesByCategory[i].total = stats.expensesByCategory[i + 1].total
    /\ stats.expensesByCategory[1].total > stats.expensesByCategory[5].total

\* C10, as claimed: the list is sorted strictly descending by sum.
C10_Claimed_StrictlyDescending ==
    stats.rendered =>
        /\ TopExpensesWellFormed
        /\ \A i \in 1..(Len(stats.expensesByCategory) - 1) :
              stats.expensesByCategory[i].total
                  > stats.expensesByCategory[i + 1].total

RECURSIVE SumOfTotals(_)
\* the sum of the totals of a list of entries
SumOfTotals(items) ==
    IF items = <<>> THEN 0 ELSE Head(items).total + SumOfTotals(Tail(items))

\* the month-to-date expenses rendered, and the categories they reference
MonthExpenses ==
    {stats.monthTransactions[i] : i \in
        {j \in 1..Len(stats.monthTransactions) :
            stats.monthTransactions[j].type = "expense"}}

\* C11: once Stats has rendered, the per-category month-to-date expense sums
\* add up to at most totalMonthExpenses, and to exactly totalMonthExpenses
\* when every expense of the month-to-date set references an expense
\* category of the loaded categories.
C11_CategorySumsWithinTotal ==
    stats.rendered =>
        /\ SumOfTotals(stats.categoryTotals) <= stats.totalMonthExpenses
        /\ (\A t \in MonthExpenses :
                \E c \in Range(categories) :
                    c.id = t.category_id /\ c.type = "expense")
              => SumOfTotals(stats.categoryTotals) = stats.totalMonthExpenses

\* C11 witness: two loaded expense categories have expenses in the month,
\* every expense of the month references a loaded expense category, and the
\* sums add up to a total greater than 0
C11_Witness ==
    /\ stats.rendered
    /\ stats.totalMonthExpenses > 0
    /\ Cardinality({i \in 1..Len(stats.categoryTotals) :
                       stats.categoryTotals[i].total > 0}) >= 2
    /\ \A t \in MonthExpenses :
          \E c \in Range(categories) : c.id = t.category_id /\ c.type = "expense"
    /\ SumOfTotals(stats.categoryTotals) = stats.totalMonthExpenses

\* C11, as claimed: the sums add up to exactly totalMonthExpenses when every
\* expense of the month references a category of the loaded categories, of
\* whichever type.
C11_Claimed_EqualityForLoadedCategories ==
    stats.rendered =>
        /\ SumOfTotals(stats.categoryTotals) <= stats.totalMonthExpenses
        /\ (\A t \in MonthExpenses :
                \E c \in Range(categories) : c.id = t.category_id)
              => SumOfTotals(stats.categoryTotals) = stats.totalMonthExpenses

\* the positions of the loaded transactions of a type dated on a day
PositionsOfDay(type, day) ==
    {i \in 1..Len(transactions) :
        transactions[i].type = type /\ transactions[i].date = day}

\* C12, as claimed: the trailing series has 7 entries, for the days from 6
\* days before the clock's local day up to that day, in that order, and in
\* every time zone the expenses (the income) of an entry are the sum of the
\* loaded expense (income) transactions dated on the entry's day.
C12_Claimed_TrailingSeries ==
    stats.rendered =>
        /\ Len(stats.dailyData) = 7
        /\ \A k \in 1..Len(stats.dailyData) :
              LET entry == stats.dailyData[k]
              IN  /\ entry.date = LocalDay(now, tz) - (7 - k)
                  /\ entry.expenses =
                        SumOfSet(transactions, PositionsOfDay("expense", entry.date))
                  /\ entry.income =
                        SumOfSet(transactions, PositionsOfDay("income", entry.date))

\* the positions of the loaded expenses of a category dated in the calendar
\* month of a day
PositionsOfBudget(category, month) ==
    {i \in 1..Len(transactions) :
        /\ transactions[i].type = "expense"
        /\ transactions[i].category_id = category
        /\ MonthOfDay(transactions[i].date) = MonthOfDay(month)}

\* C13, as claimed: in every time zone the spent amount of a budget's card is
\* the sum of the loaded expenses of the budget's category dated in the
\* budget's calendar month, first and last day included.
C13_Claimed_SpentOfBudgetMonth ==
    budgetCards.rendered =>
        \A k \in 1..Len(budgetCards.cards) :
            LET card == budgetCards.cards[k]
            IN  card.spent =
                    SumOfSet(transactions,
                             PositionsOfBudget(card.budget.category_id, card.budget.month))

\* C14: on every card rendered, isOverBudget is true exactly when spent is
\* greater than the budget's amount; the overage is shown exactly when
\* isOverBudget is true and is spent minus the amount; the bar's width is
\* spent / amount * 100 when that is at most 100 and 100 otherwise; and the
\* 'used' figure is spent / amount * 100 rounded to an integer, without a cap.
\* (Two fractions are compared by their whole parts and their remainders.)
C14_BudgetCard ==
    budgetCards.rendered =>
        \A k \in 1..Len(budgetCards.cards) :
            LET card == budgetCards.cards[k]
                amount == card.budget.amount
            IN  /\ card.isOverBudget <=> (card.spent > amount)
                /\ card.overBy =
                      IF card.isOverBudget THEN <<card.spent - amount>> ELSE <<>>
                /\ IF card.spent <= amount
                   THEN /\ card.width.num \div card.width.den
                              = (card.spent * 100) \div amount
                        /\ (card.width.num % card.width.den) * amount
                              = ((card.spent * 100) % amount) * card.width.den
                   ELSE card.width.num = 100 * card.width.den
                /\ 2 * amount * card.used <= 2 * card.spent * 100 + amount
                /\ 2 * card.spent * 100 + amount < 2 * amount * (card.used + 1)

\* C14 witness: a card is rendered for a budget that is overspent: the
\* overage is shown, the bar is full and the 'used' figure is above 100;
\* another card is rendered for a budget that is partly used
C14_Witness ==
    /\ budgetCards.rendered
    /\ \E k \in 1..Len(budgetCards.cards) :
          /\ budgetCards.cards[k].isOverBudget
          /\ budgetCards.cards[k].overBy # <<>>
          /\ budgetCards.cards[k].used > 100
          /\ budgetCards.cards[k].width = [num |-> 100, den |-> 1]
    /\ \E k \in 1..Len(budgetCards.cards) :
          /\ budgetCards.cards[k].spent > 0
          /\ budgetCards.cards[k].spent < budgetCards.cards[k].budget.amount

\* C20: with no transaction loaded, whatever categories and budgets are
\* loaded, every aggregate rendered has its empty value: the three totals of
\* the dashboard are 0, the list of top expenses is empty and the month's
\* expenses are 0, the trailing series has 7 entries with expenses and income
\* 0, and every budget card has spent 0, is not over budget, shows no overage
\* and 0% used.
C20_EmptyTransactionList ==
    transactions = <<>> =>
        /\ totals.rendered =>
              /\ totals.totalIncome = 0
              /\ totals.totalExpenses = 0
              /\ totals.balance = 0
        /\ stats.rendered =>
              /\ stats.expensesByCategory = <<>>
              /\ stats.totalMonthExpenses = 0
              /\ Len(stats.dailyData) = 7
              /\ \A i \in 1..Len(stats.dailyData) :
                    /\ stats.dailyData[i].expenses = 0
                    /\ stats.dailyData[i].income = 0
        /\ budgetCards.rendered =>
              /\ Len(budgetCards.cards) = Len(budgets)
              /\ \A k \in 1..Len(budgetCards.cards) :
                    /\ budgetCards.cards[k].spent = 0
                    /\ ~budgetCards.cards[k].isOverBudget
                    /\ budgetCards.cards[k].overBy = <<>>
                    /\ budgetCards.cards[k].used = 0

\* C20 witness: no transaction and two budgets are loaded, and the dashboard,
\* the statistics and the budget cards have all been rendered
C20_Witness ==
    /\ transactions = <<>>
    /\ Len(budgets) = 2
    /\ categories # <<>>
    /\ totals.rendered
    /\ stats.rendered
    /\ budgetCards.rendered
    /\ Len(budgetCards.cards) = 2

----------------------------------------------------------------------------
(* Properties of the loads *)

\* the rows of table that belong to the session's user
OwnRows(table) == {r \in TableRows(table) : r.user_id = SessionUser}

\* data is in the order its table is loaded in
InOrder(table, data) ==
    \A i \in 1..(Len(data) - 1) :
        CASE table = "categories" -> NameRank(data[i].name) <= NameRank(data[i + 1].name)
          [] table = "transactions" -> data[i].date >= data[i + 1].date
          [] table = "budgets" -> data[i].month >= data[i + 1].month

\* data is what a load of table is to return: rows of the user stored, each
\* once, in order; all of them, or for the transactions the 100 latest
AsRequired(table, data) ==
    /\ \A i \in 1..Len(data) : data[i] \in OwnRows(table)
    /\ \A i, j \in 1..Len(data) : i # j => data[i] # data[j]
    /\ InOrder(table, data)
    /\ IF table = "transactions"
       THEN /\ Len(data) = Min(Cardinality(OwnRows(table)), 100)
            /\ \A r \in OwnRows(table) \ Range(data) :
                  \A i \in 1..Len(data) : r.date <= data[i].date
       ELSE Len(data) = Cardinality(OwnRows(table))

\* the collection the dashboard holds for table after a step
HeldAfter(table) ==
    CASE table = "transactions" -> transactions'
      [] table = "categories" -> categories'
      [] table = "budgets" -> budgets'

\* C15: the data a load is answered with are the rows of the caller in the
\* order required (categories by name ascending, budgets by month descending,
\* transactions by date descending and only the 100 latest); when the answer
\* arrives the collection of that table becomes exactly these data; and the
\* list of transactions never holds more than 100 rows, is latest first, and
\* no stored row of the user that it lacks is dated later than one it holds.
C15_LoadsAsRequired ==
    [][/\ \A i \in 1..Len(requests) :
             /\ (/\ requests[i].op = "load" /\ requests[i].answer = NotAnswered
                 /\ Len(requests') = Len(requests)
                 /\ requests'[i].op = "load"
                 /\ requests'[i].answer.state = "data")
                   => AsRequired(requests[i].table, requests'[i].answer.data)
             /\ (/\ requests[i].op = "load" /\ requests[i].answer.state = "data"
                 /\ requests' = Without(i))
                   => HeldAfter(requests[i].table) = requests[i].answer.data
       /\ Len(transactions') <= 100
       /\ InOrder("transactions", transactions')
       /\ InOrder("categories", categories')
       /\ InOrder("budgets", budgets')
       /\ \A r \in OwnRows("transactions")' \ Range(transactions') :
             \A k \in 1..Len(transactions') : r.date <= transactions'[k].date
      ]_vars

\* C15 witness: the user has more than 100 transactions stored, another user
\* has a later one, and every load has been answered: the list holds 100
\* rows, the categories and the budgets hold two each
C15_Witness ==
    /\ Cardinality(OwnRows("transactions")) > 100
    /\ transactionsTable # OwnRows("transactions")
    /\ requests = <<>> /\ ~loading
    /\ Len(transactions) = 100
    /\ Len(categories) = 2
    /\ Len(budgets) = 2

\* the tables whose loader of loadData has not finished
InitialTables ==
    {requests[i].table :
        i \in {j \in 1..Len(requests) : requests[j].op = "load" /\ requests[j].initial}}

\* C16: when the dashboard is mounted the three loads of loadData are under
\* way, none answered, and the dashboard is loading; it is loading exactly as
\* long as one of the three has not finished, whatever the order they finish
\* in; while it is loading the view is not changed and nothing is rendered;
\* and no load of loadData is issued again.
C16_LoadingUntilAllThree ==
    /\ loading = TRUE
    /\ requests = <<[op |-> "load", table |-> "transactions", initial |-> TRUE,
                        answer |-> NotAnswered],
                       [op |-> "load", table |-> "categories", initial |-> TRUE,
                        answer |-> NotAnswered],
                       [op |-> "load", table |-> "budgets", initial |-> TRUE,
                        answer |-> NotAnswered]>>
    /\ [](loading <=> InitialTables # {})
    /\ [][/\ loading => UNCHANGED <<view, totals, stats, budgetCards>>
          /\ InitialTables' \subseteq InitialTables
         ]_vars

\* C16 witness: the budgets and the categories have been loaded, a category
\* among them, the load of the transactions, issued first, has been answered
\* by the store with a row but its answer has not arrived, and the dashboard
\* is loading and has rendered nothing
C16_Witness ==
    /\ loading
    /\ InitialTables = {"transactions"}
    /\ requests[1].answer.state = "data"
    /\ requests[1].answer.data # <<>>
    /\ categories # <<>>
    /\ ~totals.rendered

----------------------------------------------------------------------------
(* Properties of the deletes *)

\* the delete requests among reqs
Deletes(reqs) == SelectSeq(reqs, LAMBDA r : r.op = "delete")

\* the requests under way, without their answers
Outstanding(reqs) == [i \in 1..Len(reqs) |-> <<reqs[i].op, reqs[i].table>>]

\* the ids of the rows the dashboard holds for table
HeldIds(table) ==
    CASE table = "transactions" -> SeqIds(transactions)
      [] table = "categories" -> SeqIds(categories)
      [] table = "budgets" -> SeqIds(budgets)

\* C18: a step sends a delete request only when the user has answered yes to
\* the dialog, and the request is then the one delete of the table and row
\* the dialog was opened for, a row the dashboard holds; while the dialog is
\* open, and after the user has answered no, no request is sent (no delete,
\* no reload), none is taken off, and the state in memory is unchanged; after
\* the answer the dialog is gone.
C18_DeleteOnlyConfirmed ==
    [][/\ Len(Deletes(requests')) > Len(Deletes(requests)) =>
             /\ prompt.answer = "yes"
             /\ prompt.id \in HeldIds(prompt.table)
             /\ requests' = Append(requests, [op |-> "delete", table |-> prompt.table,
                                              id |-> prompt.id])
             /\ UNCHANGED <<storeVars, dashboardVars, formVars>>
       /\ prompt.answer \in {"open", "no"} =>
             /\ Outstanding(requests') = Outstanding(requests)
             /\ UNCHANGED <<dashboardVars, formVars>>
       /\ prompt.answer = "open" => prompt'.answer \in {"open", "yes", "no"}
       /\ prompt.answer = "no" => prompt' \in {prompt, NoPrompt}
      ]_vars

\* C18 witness: after the dialog for a category the dashboard holds was
\* answered, the delete of that category is under way and no dialog is open
C18_Witness ==
    /\ prompt = NoPrompt
    /\ \E i \in 1..Len(requests) :
          /\ requests[i].op = "delete"
          /\ requests[i].table = "categories"
          /\ requests[i].id \in SeqIds(categories)

----------------------------------------------------------------------------
(* Properties of the transaction form *)

\* the loaded categories of an id and a type
LoadedAs(id, type) ==
    {i \in 1..Len(categories) : categories[i].id = id /\ categories[i].type = type}

\* the inserts of transactions among reqs
TransactionInserts(reqs) ==
    SelectSeq(reqs, LAMBDA r : r.op = "insert" /\ r.table = "transactions")

\* C19: a step that selects a category in the transaction form selects a
\* loaded category of the form's type, and a step that changes the form's
\* type empties the selection, so that in every state no loaded category of
\* another type is selected; and every insert the form sends carries the
\* form's type and the id of a loaded category of that type.
C19_CategoryOfFormType ==
    /\ [](\A i \in 1..Len(categories) :
             categories[i].id = transactionForm.categoryId =>
                 categories[i].type = transactionForm.type)
    /\ [][/\ transactionForm'.categoryId \notin {NoId, transactionForm.categoryId} =>
                /\ transactionForm'.type = transactionForm.type
                /\ LoadedAs(transactionForm'.categoryId, transactionForm.type) # {}
          /\ transactionForm'.type # transactionForm.type =>
                transactionForm'.categoryId = NoId
          /\ Len(TransactionInserts(requests')) > Len(TransactionInserts(requests)) =>
                LET sent == requests'[Len(requests')].sent
                IN  /\ requests' = Append(requests, InsertRequest("transactions", sent))
                    /\ sent.type = transactionForm.type
                    /\ sent.category_id = transactionForm.categoryId
                    /\ LoadedAs(sent.category_id, sent.type) # {}
         ]_vars

\* C19 witness: with an expense and an income category loaded, the form has
\* been switched to income, an income category selected, and the insert of an
\* income that references it is under way
C19_Witness ==
    /\ \E i, j \in 1..Len(categories) :
          categories[i].type = "expense" /\ categories[j].type = "income"
    /\ transactionForm.type = "income"
    /\ LoadedAs(transactionForm.categoryId, "income") # {}
    /\ \E i \in 1..Len(requests) :
          /\ requests[i].op = "insert" /\ requests[i].table = "transactions"
          /\ requests[i].sent.type = "income"
          /\ LoadedAs(requests[i].sent.category_id, "income") # {}

----------------------------------------------------------------------------
(* Properties of overlapping loads *)

\* C17, as claimed: when no request is under way and no dialog is open, the
\* list of transactions is the result of the load the most recent delete
\* triggered.  The deletes are clicked one after the other's answer and no
\* other session writes, so that load was the last one sent, it was executed
\* after every delete, and its result is the rows stored now, latest first.
C17_Claimed_LatestLoadHeld ==
    (requests = <<>> /\ prompt = NoPrompt) =>
        transactions \in LoadResults("transactions")

----------------------------------------------------------------------------
(* Properties across users *)

\* C21, as claimed: in every step, every row that enters or leaves a table,
\* by the statement itself, by the rewrite of an update or by ON DELETE
\* CASCADE, is owned by the caller of the statement, so that the rows of any
\* other user are the same before and after.
C21_Claimed_OthersRowsUnchanged ==
    [][\A table \in Tables :
          \A r \in Added(table) \cup Gone(table) : r.user_id = lastOp'.caller
      ]_vars

----------------------------------------------------------------------------
(* Properties of the lists after the delete of a category *)

\* C22, as claimed: when no request is under way and no dialog is open, every
\* transaction and every budget the dashboard holds references a category
\* that is loaded or stored: none references a category that was deleted and
\* that the reload after the delete has taken from the loaded categories.
C22_Claimed_NoRowOfDeletedCategory ==
    (requests = <<>> /\ prompt = NoPrompt) =>
        \A row \in Range(transactions) \cup Range(budgets) :
            \/ row.category_id \in SeqIds(categories)
            \/ row.category_id \in Ids(categoriesTable)

RECURSIVE SumOfWidths(_)
\* the widths of the bars added up, as hundredths of totalMonthExpenses
SumOfWidths(bars) ==
    IF bars = <<>> THEN 0
    ELSE bars[1].width.num + SumOfWidths(Tail(bars))

RECURSIVE SumOfLabels(_)
\* the labels of the bars added up, in tenths of a percent
SumOfLabels(bars) ==
    IF bars = <<>> THEN 0
    ELSE bars[1].label + SumOfLabels(Tail(bars))

\* C23, amended: whenever the statistics show a top-expenses entry, the
\* month's expense total is above 0, so no percentage is computed with a zero
\* divisor; every percentage, the width of the entry's bar, is above 0 and at
\* most 100, and the percentages of the shown entries add up to at most 100;
\* the label of an entry is that percentage rounded to the nearest tenth, so
\* it lies between 0.0 and 100.0 and differs from the percentage by at most
\* half a tenth.
C23_PercentagesOfTopExpenses ==
    (stats.rendered /\ stats.expenseBars # <<>>) =>
        /\ stats.totalMonthExpenses > 0
        /\ Len(stats.expenseBars) = Len(stats.expensesByCategory)
        /\ \A i \in 1..Len(stats.expenseBars) :
              LET bar == stats.expenseBars[i]
              IN  /\ bar.total = stats.expensesByCategory[i].total
                  /\ bar.width.den = stats.totalMonthExpenses
                  /\ bar.width.num = bar.total * 100
                  /\ bar.width.num > 0
                  /\ bar.width.num <= 100 * bar.width.den
                  /\ bar.label \in 0..1000
                  /\ 2 * (10 * bar.width.num - bar.label * bar.width.den)
                        <= bar.width.den
                  /\ 2 * (bar.label * bar.width.den - 10 * bar.width.num)
                        <= bar.width.den
        /\ SumOfWidths(stats.expenseBars) <= 100 * stats.totalMonthExpenses

\* C23 witness: three entries are shown whose percentages add up to exactly
\* 100 and whose labels add up to 100.1
C23_Witness ==
    /\ stats.rendered
    /\ Len(stats.expenseBars) = 3
    /\ SumOfWidths(stats.expenseBars) = 100 * stats.totalMonthExpenses
    /\ SumOfLabels(stats.expenseBars) = 1001

\* C23, as claimed of what is displayed: every label of a shown entry is above
\* 0.0 and the labels of the shown entries add up to at most 100.0
C23_Claimed_DisplayedPercentages ==
    (stats.rendered /\ stats.expenseBars # <<>>) =>
        /\ \A i \in 1..Len(stats.expenseBars) : stats.expenseBars[i].label > 0
        /\ SumOfLabels(stats.expenseBars) <= 1000

\* the expense and income totals of the days of a series
DayTotals(days) ==
    {days[i].expenses : i \in 1..Len(days)}
        \cup {days[i].income : i \in 1..Len(days)}

\* C24: whenever the statistics are shown, maxAmount is the largest of 100 and
\* every expense and income total of the 7 daily entries; so maxAmount is at
\* least 100, the width value / maxAmount * 100 of every bar lies between 0
\* and 100, and when every total is 0 every bar has width 0.
C24_MaxAmountAndBarWidths ==
    stats.rendered =>
        LET days == stats.dailyData
            values == DayTotals(days) \cup {MaxAmountFloor}
        IN  /\ Len(days) = 7
            /\ stats.maxAmount \in values
            /\ \A v \in values : stats.maxAmount >= v
            /\ stats.maxAmount >= MaxAmountFloor
            /\ Len(stats.dayBars) = Len(days)
            /\ \A i \in 1..Len(days) :
                  LET bar == stats.dayBars[i]
                  IN  /\ bar.expenses.den = stats.maxAmount
                      /\ bar.income.den = stats.maxAmount
                      /\ bar.expenses.num = days[i].expenses * 100
                      /\ bar.income.num = days[i].income * 100
                      /\ 0 <= bar.expenses.num
                      /\ bar.expenses.num <= 100 * stats.maxAmount
                      /\ 0 <= bar.income.num
                      /\ bar.income.num <= 100 * stats.maxAmount
            /\ DayTotals(days) = {0} =>
                  \A i \in 1..Len(days) :
                      /\ stats.dayBars[i].expenses.num = 0
                      /\ stats.dayBars[i].income.num = 0

\* C24 witness: the statistics are shown for a week whose largest total, an
\* income total above 100, is maxAmount, so that day's income bar is full,
\* while the expense bar of the same day is neither empty nor full
C24_Witness ==
    /\ stats.rendered
    /\ stats.maxAmount > MaxAmountFloor
    /\ \E i \in 1..Len(stats.dailyData) :
          /\ stats.dailyData[i].income = stats.maxAmount
          /\ stats.dayBars[i].income.num = 100 * stats.maxAmount
          /\ stats.dayBars[i].expenses.num > 0
          /\ stats.dayBars[i].expenses.num < 100 * stats.maxAmount

\* every fetch under way eventually completes, with data or with an error,
\* and the continuation of a loader whose fetch has completed eventually runs
FetchesComplete ==
    /\ WF_vars(LoadExecuted \/ LoadFailed)
    /\ WF_vars(LoadDone)

FairClientSpec == ClientSpec /\ FetchesComplete

\* C25: provided every fetch eventually completes, with data or with an
\* error, the dashboard started by loadData eventually stops loading; and
\* when the answer of a fetch that completed without data arrives, the
\* collection of its table, like the two others, is left as it was.
C25_LoadingEnds ==
    /\ (loading = TRUE) ~> (loading = FALSE)
    /\ [][\A i \in 1..Len(requests) :
             (LoadReturns(i) /\ requests[i].answer.state = "error") =>
                 UNCHANGED <<transactions, categories, budgets>>
         ]_vars

\* C25 witness: the dashboard has stopped loading and holds a category, and a
\* later fetch of the categories has completed with an error that is about to
\* arrive
C25_Witness ==
    /\ loading = FALSE
    /\ categories # <<>>
    /\ \E i \in 1..Len(requests) :
          /\ requests[i].op = "load" /\ requests[i].table = "categories"
          /\ requests[i].answer.state = "error"

====
